---- MODULE Spec2Model ----
(***************************************************************************)
(* Per-event sink/transform helpers of the pipeline:                       *)
(*   sinks/util/interpolation.rs  interpolate, partition                   *)
(*   sinks/util/encoding.rs       event_as_string, event_as_bytes, ...     *)
(*   transforms/coercer.rs        Coercer::transform                       *)
(* Text and byte strings are sequences of one-character strings.           *)
(***************************************************************************)
EXTENDS Integers, Sequences, FiniteSets, TLC

(* ------------------------------ bounds -------------------------------- *)

\* longest template, counted in tokens of TemplateTokens
MaxTok == 7
\* longest byte string held by an event field
MaxValLen == 1
\* number of workers that process events concurrently
NumWorkers == 2

(* ------------------------------ helpers ------------------------------- *)

Max(S) == CHOOSE x \in S : \A y \in S : y <= x
Min(S) == CHOOSE x \in S : \A y \in S : x <= y

RECURSIVE Flatten(_)
Flatten(ss) == IF ss = <<>> THEN <<>> ELSE Head(ss) \o Flatten(Tail(ss))

SeqsUpTo(S, n) == UNION {[1..k -> S] : k \in 0..n}

(* ------------------------- the event collaborator --------------------- *)

\* event::MESSAGE, the reserved message field
MESSAGE == <<"m", "e", "s", "s", "a", "g", "e">>
KeyA == <<"a">>
EventKeys == {KeyA, MESSAGE}
\* the order in which all_fields() yields the fields
KeyOrder == <<KeyA, MESSAGE>>

\* "xFF" is a byte that is not valid UTF-8 on its own
ValChars == {"1", "n", "xFF"}
Bytes(b) == [kind |-> "Bytes", v |-> b]
Integer(n) == [kind |-> "Integer", v |-> n]
Boolean(b) == [kind |-> "Boolean", v |-> b]
Values == {Bytes(b) : b \in SeqsUpTo(ValChars, MaxValLen)}

\* a LogEvent: a map from some field keys to values
Events == UNION {[S -> Values] : S \in SUBSET EventKeys}

Has(log, key) == key \in DOMAIN log
\* LogEvent::is_structured: some field besides the message field
is_structured(log) == \E k \in DOMAIN log : k # MESSAGE

\* Option and Result
None == [tag |-> "None"]
Some(v) == [tag |-> "Some", val |-> v]
Ok(v) == [tag |-> "Ok", val |-> v]
Err(e) == [tag |-> "Err", err |-> e]
\* panic!: the process ends, no value is returned
Panic == [tag |-> "Panic"]

DigitChars == <<"0", "1", "2", "3", "4", "5", "6", "7", "8", "9">>
IsDigit(c) == \E i \in 1..10 : DigitChars[i] = c

\* an integer printed in decimal, as format!("{}", n) prints it
RECURSIVE Decimal(_)
Decimal(n) ==
    IF n < 0 THEN <<"-">> \o Decimal(0 - n)
    ELSE IF n < 10 THEN <<DigitChars[n + 1]>>
    ELSE Decimal(n \div 10) \o Decimal(n % 10)

\* Value::as_bytes: the byte view of a value
as_bytes(value) ==
    CASE value.kind = "Bytes" -> value.v
      [] value.kind = "Integer" -> Decimal(value.v)
      [] value.kind = "Boolean" ->
            IF value.v THEN <<"t", "r", "u", "e">> ELSE <<"f", "a", "l", "s", "e">>

\* String::from_utf8_lossy: a byte that is not valid UTF-8 becomes the
\* replacement character U+FFFD; text is a sequence of characters
from_utf8_lossy(bytes) ==
    [i \in 1..Len(bytes) |-> IF bytes[i] = "xFF" THEN "U+FFFD" ELSE bytes[i]]

\* Value::to_string_lossy: the lossy text view of a value
to_string_lossy(value) == from_utf8_lossy(as_bytes(value))

\* the UTF-8 bytes of one character, and of a text
CharBytes(c) == IF c = "U+FFFD" THEN <<"xEF", "xBF", "xBD">> ELSE <<c>>
into_bytes(string) == Flatten([i \in 1..Len(string) |-> CharBytes(string[i])])

\* String::from_utf8: the text of valid UTF-8 bytes, an error otherwise
RECURSIVE from_utf8(_)
from_utf8(bytes) ==
    IF bytes = <<>> THEN Ok(<<>>)
    ELSE IF Len(bytes) >= 3 /\ SubSeq(bytes, 1, 3) = <<"xEF", "xBF", "xBD">>
         THEN LET rest == from_utf8(SubSeq(bytes, 4, Len(bytes)))
              IN  IF rest.tag = "Ok" THEN Ok(<<"U+FFFD">> \o rest.val) ELSE rest
    ELSE IF Head(bytes) \in {"xFF", "xEF", "xBF", "xBD"}
         THEN Err("invalid utf-8 sequence")
    ELSE LET rest == from_utf8(Tail(bytes))
         IN  IF rest.tag = "Ok" THEN Ok(<<Head(bytes)>> \o rest.val) ELSE rest

Quoted(bytes) == <<"\"">> \o bytes \o <<"\"">>

\* a value as serde_json writes it: text as a string, numbers and booleans bare
JsonValue(value) ==
    IF value.kind = "Bytes" THEN Quoted(into_bytes(to_string_lossy(value)))
    ELSE as_bytes(value)

\* serde_json::to_vec(&log.all_fields()): one object holding every field
ToJson(log) ==
    LET keys == SelectSeq(KeyOrder, LAMBDA k : Has(log, k))
        member(i) == (IF i = 1 THEN <<>> ELSE <<",">>)
                         \o Quoted(keys[i]) \o <<":">> \o JsonValue(log[keys[i]])
    IN  <<"{">> \o Flatten([i \in 1..Len(keys) |-> member(i)]) \o <<"}">>

(* --------------------- sinks/util/interpolation.rs -------------------- *)

\* the regular expression compiled by interpolate
PATTERN == "\\{\\{(?P<key>\\D+)\\}\\}"

TemplateTokens == {<<"{", "{">>, <<"}", "}">>, <<"a">>, <<"1">>}
Templates == {Flatten(ts) : ts \in SeqsUpTo(TemplateTokens, MaxTok)}

\* MatchEnd with any character, digits too, allowed in the key
MatchEnd_AnyChar(text, i) ==
    LET n == Len(text)
        ends == {j \in (i + 2)..(n - 2) : text[j + 1] = "}" /\ text[j + 2] = "}"}
    IN  IF i + 1 <= n /\ text[i] = "{" /\ text[i + 1] = "{" /\ ends # {}
        THEN Max(ends) + 2
        ELSE 0

\* Where a match of PATTERN that starts at position i of text ends, 0 if
\* none starts there: "{{", then \D+ taken greedily (the longest run of
\* non-digits that still leaves "}}" to follow), then "}}".
MatchEnd(text, i) ==
    LET n == Len(text)
        ends == {j \in (i + 2)..(n - 2) :
                    /\ \A k \in (i + 2)..j : ~IsDigit(text[k])
                    /\ text[j + 1] = "}"
                    /\ text[j + 2] = "}"}
    IN  IF i + 1 <= n /\ text[i] = "{" /\ text[i + 1] = "{" /\ ends # {}
        THEN Max(ends) + 2
        ELSE 0

NoMatch == [matched |-> FALSE, start |-> 0, end |-> 0]

\* Regex::captures: the leftmost match, None if there is none
captures(pattern, text) ==
    LET starts == {i \in 1..Len(text) : MatchEnd(text, i) # 0}
    IN  IF starts = {} THEN NoMatch
        ELSE [matched |-> TRUE, start |-> Min(starts),
              end |-> MatchEnd(text, Min(starts))]

\* Regex::replace_all: every non-overlapping match replaced by rep
RECURSIVE replace_all(_, _, _)
replace_all(pattern, text, rep) ==
    LET cap == captures(pattern, text)
    IN  IF ~cap.matched THEN text
        ELSE SubSeq(text, 1, cap.start - 1) \o rep
                 \o replace_all(pattern, SubSeq(text, cap.end + 1, Len(text)), rep)

\* Regex::replace: the leftmost match replaced by rep, later matches kept
replace(pattern, text, rep) ==
    LET cap == captures(pattern, text)
    IN  IF ~cap.matched THEN text
        ELSE SubSeq(text, 1, cap.start - 1) \o rep
                 \o SubSeq(text, cap.end + 1, Len(text))

Static(source) == [tag |-> "Static", source |-> source]
Field(pattern, source, key) ==
    [tag |-> "Field", pattern |-> pattern, source |-> source, key |-> key]

\* interpolate: the capture group "key" takes part in every match and a
\* &str is valid UTF-8, so the result is always Some; this is its content
interpolate(text) ==
    LET cap == captures(PATTERN, text)
    IN  IF cap.matched
        THEN Field(PATTERN, text, SubSeq(text, cap.start + 2, cap.end - 2))
        ELSE Static(text)

KeyMissing(key) ==
    [level |-> "warn",
     message |-> "Event key does not exist on the event and the event will be dropped.",
     key |-> key]

\* partition that falls back to the template when the key is missing
partition_KeepMissing(event, stream) ==
    IF stream.tag = "Static" \/ ~Has(event, stream.key)
    THEN [result |-> Some(stream.source), diag |-> <<>>]
    ELSE [result |-> Some(replace(stream.pattern, stream.source,
                                  as_bytes(event[stream.key]))),
          diag |-> <<>>]

\* partition: the bytes of the stream name for the event, and what it logs
partition(event, stream) ==
    IF stream.tag = "Static"
    THEN [result |-> Some(stream.source), diag |-> <<>>]
    ELSE IF Has(event, stream.key)
         THEN [result |-> Some(replace(stream.pattern, stream.source,
                                       as_bytes(event[stream.key]))),
               diag |-> <<>>]
         ELSE [result |-> None, diag |-> <<KeyMissing(stream.key)>>]


(* ----------------------- sinks/util/encoding.rs ----------------------- *)

Text == "Text"
Json == "Json"
\* Option<BasicEncoding>
Encodings == {None, Some(Text), Some(Json)}

\* the raw message field as text, empty when the event has none
MessageString(log) ==
    IF Has(log, MESSAGE) THEN to_string_lossy(log[MESSAGE]) ELSE <<>>

\* the raw message field as bytes, empty when the event has none
MessageBytes(log) ==
    IF Has(log, MESSAGE) THEN as_bytes(log[MESSAGE]) ELSE <<>>

\* event_as_string without the test for Json
event_as_string_NoJson(log, enc) ==
    IF is_structured(log) /\ enc # Some(Text)
    THEN LET string == from_utf8(ToJson(log))
         IN  IF string.tag = "Ok" THEN string ELSE Panic
    ELSE Ok(MessageString(log))

event_as_string(log, enc) ==
    IF (is_structured(log) /\ enc # Some(Text)) \/ enc = Some(Json)
    THEN LET string == from_utf8(ToJson(log))
         IN  IF string.tag = "Ok" THEN string ELSE Panic
    ELSE Ok(MessageString(log))

\* the first arm that matches (encoding, log.is_structured()) is taken
event_as_raw_bytes(log, enc) ==
    IF enc = Some(Json) \/ is_structured(log)
    THEN Ok(ToJson(log))
    ELSE Ok(MessageBytes(log))

event_as_bytes(log, enc) == event_as_raw_bytes(log, enc)

event_as_bytes_with_nl(log, enc) ==
    LET bytes == event_as_raw_bytes(log, enc)
    IN  IF bytes.tag = "Ok" THEN Ok(bytes.val \o <<"\n">>) ELSE bytes

(* ------------------------ transforms/coercer.rs ----------------------- *)

Conversions == {"Integer", "Boolean"}
\* the maps parse_conversion_map can return for the fields events carry
ConversionMaps == UNION {[S -> Conversions] : S \in SUBSET EventKeys}

RECURSIVE ParseDigits(_)
ParseDigits(s) ==
    IF s = <<>> THEN 0
    ELSE 10 * ParseDigits(SubSeq(s, 1, Len(s) - 1))
             + (CHOOSE d \in 0..9 : DigitChars[d + 1] = s[Len(s)])

\* str::parse of an integer: a non-empty run of digits
ParseInt(s) ==
    IF s # <<>> /\ \A i \in 1..Len(s) : IsDigit(s[i])
    THEN Ok(ParseDigits(s))
    ELSE Err("invalid digit found in string")

\* Conversion::convert: the value's text parsed as the target kind
convert(conv, value) ==
    LET s == to_string_lossy(value)
    IN  IF conv = "Integer"
        THEN LET n == ParseInt(s)
             IN  IF n.tag = "Ok" THEN Ok(Integer(n.val)) ELSE n
        ELSE IF s \in {<<"y">>, <<"t">>} THEN Ok(Boolean(TRUE))
        ELSE IF s \in {<<"n">>, <<"f">>, <<"0">>} THEN Ok(Boolean(FALSE))
        ELSE LET n == ParseInt(s)
             IN  IF n.tag = "Ok" THEN Ok(Boolean(n.val # 0))
                 ELSE Err("invalid boolean")

\* LogEvent::insert_explicit
insert_explicit(log, key, value) ==
    [k \in DOMAIN log \cup {key} |-> IF k = key THEN value ELSE log[k]]

CouldNotConvert(field, err) ==
    [level |-> "debug", message |-> "Could not convert types.",
     field |-> field, error |-> err]

\* CoerceField that gives up the whole field when its conversion fails
CoerceField_DropFailed(log, diag, field, conv) ==
    IF Has(log, field)
    THEN LET r == convert(conv, log[field])
         IN  IF r.tag = "Ok"
             THEN [log |-> insert_explicit(log, field, r.val), diag |-> diag]
             ELSE [log |-> [k \in DOMAIN log \ {field} |-> log[k]],
                   diag |-> Append(diag, CouldNotConvert(field, r.err))]
    ELSE [log |-> log, diag |-> diag]

\* one turn of the loop of Coercer::transform, for the entry (field, conv)
CoerceField(log, diag, field, conv) ==
    IF Has(log, field)
    THEN LET r == convert(conv, log[field])
         IN  IF r.tag = "Ok"
             THEN [log |-> insert_explicit(log, field, r.val), diag |-> diag]
             ELSE [log |-> log, diag |-> Append(diag, CouldNotConvert(field, r.err))]
    ELSE [log |-> log, diag |-> diag]

(* ------------------------------- state -------------------------------- *)

Workers == 1..NumWorkers

VARIABLES
    template,   \* the sink's configured stream name
    stream,     \* the Partition compiled from it at construction
    encoding,   \* the sink's Option<BasicEncoding>
    types,      \* the Coercer's conversion map
    calls       \* per worker: the call it is in or has finished

config == <<template, stream, encoding, types>>
vars == <<template, stream, encoding, types, calls>>

NoCall ==
    [pc |-> "idle", op |-> "none", event |-> <<>>, result |-> None,
     diag |-> <<>>, log |-> <<>>, todo |-> {}]

Finished(op, event, result, diag) ==
    [pc |-> "done", op |-> op, event |-> event, result |-> result,
     diag |-> diag, log |-> <<>>, todo |-> {}]

\* a worker of a partitioned sink resolves the stream name of one event
PartitionCall(w, event) ==
    /\ calls[w].pc # "running"
    /\ LET r == partition(event, stream)
       IN  calls' = [calls EXCEPT ![w] = Finished("partition", event, r.result, r.diag)]
    /\ UNCHANGED config

\* a worker of a sink encodes one event, through one of the entry points
AsStringCall(w, event) ==
    /\ calls[w].pc # "running"
    /\ calls' = [calls EXCEPT ![w] =
           Finished("event_as_string", event, event_as_string(event, encoding), <<>>)]
    /\ UNCHANGED config

AsBytesCall(w, event) ==
    /\ calls[w].pc # "running"
    /\ calls' = [calls EXCEPT ![w] =
           Finished("event_as_bytes", event, event_as_bytes(event, encoding), <<>>)]
    /\ UNCHANGED config

AsBytesNlCall(w, event) ==
    /\ calls[w].pc # "running"
    /\ calls' = [calls EXCEPT ![w] =
           Finished("event_as_bytes_with_nl", event,
                    event_as_bytes_with_nl(event, encoding), <<>>)]
    /\ UNCHANGED config

\* Coercer::transform, entered: log = event.into_log(), the loop not begun
TransformCall(w, event) ==
    /\ calls[w].pc # "running"
    /\ calls' = [calls EXCEPT ![w] =
           [pc |-> "running", op |-> "transform", event |-> event, result |-> None,
            diag |-> <<>>, log |-> event, todo |-> DOMAIN types]]
    /\ UNCHANGED config

\* TransformStep that forgets a conversion once it has failed
TransformStep_ForgetFailed(w) ==
    /\ calls[w].pc = "running"
    /\ \E field \in calls[w].todo :
         LET r == CoerceField(calls[w].log, calls[w].diag, field, types[field])
         IN  /\ calls' = [calls EXCEPT ![w].log = r.log, ![w].diag = r.diag,
                                       ![w].todo = @ \ {field}]
             /\ types' = IF r.diag = calls[w].diag THEN types
                         ELSE [k \in DOMAIN types \ {field} |-> types[k]]
    /\ UNCHANGED <<template, stream, encoding>>

\* one turn of its loop; a HashMap yields its entries in no fixed order
TransformStep(w) ==
    /\ calls[w].pc = "running"
    /\ \E field \in calls[w].todo :
         LET r == CoerceField(calls[w].log, calls[w].diag, field, types[field])
         IN  calls' = [calls EXCEPT ![w].log = r.log, ![w].diag = r.diag,
                                    ![w].todo = @ \ {field}]
    /\ UNCHANGED config

\* the loop is over: Some(Event::Log(log))
TransformReturn(w) ==
    /\ calls[w].pc = "running"
    /\ calls[w].todo = {}
    /\ calls' = [calls EXCEPT ![w].pc = "done", ![w].result = Some(calls[w].log),
                              ![w].log = <<>>]
    /\ UNCHANGED config

(* --------------------------- specifications --------------------------- *)

\* partition reads one field of the event: events that hold it or not
PartitionEvents == {e \in Events : ~Has(e, MESSAGE)}

\* a partitioned sink built from any template resolves one event
InitInterp ==
    /\ template \in Templates
    /\ stream = interpolate(template)
    /\ encoding = None
    /\ types = <<>>
    /\ calls = [w \in Workers |-> NoCall]

NextInterp ==
    \E event \in PartitionEvents : calls[1].pc = "idle" /\ PartitionCall(1, event)

SpecInterp == InitInterp /\ [][NextInterp]_vars

\* a sink with any encoding encodes any events, one after the other
InitEnc ==
    /\ template = <<>>
    /\ stream = interpolate(template)
    /\ encoding \in Encodings
    /\ types = <<>>
    /\ calls = [w \in Workers |-> NoCall]

NextEnc ==
    \E event \in Events :
        \/ AsStringCall(1, event)
        \/ AsBytesCall(1, event)
        \/ AsBytesNlCall(1, event)

SpecEnc == InitEnc /\ [][NextEnc]_vars

\* a Coercer built from any conversion map transforms any events
InitCoerce ==
    /\ template = <<>>
    /\ stream = interpolate(template)
    /\ encoding = None
    /\ types \in ConversionMaps
    /\ calls = [w \in Workers |-> NoCall]

NextCoerce ==
    \/ \E event \in Events : TransformCall(1, event)
    \/ TransformStep(1)
    \/ TransformReturn(1)

SpecCoerce == InitCoerce /\ [][NextCoerce]_vars

\* a topology: a partitioned sink and a Coercer, events handled by
\* concurrent workers
SampleTemplates == {<<"a">>, <<"{", "{", "a", "}", "}">>}
SampleMaps == {KeyA :> "Integer", (KeyA :> "Integer") @@ (MESSAGE :> "Boolean")}
SampleEvents ==
    {MESSAGE :> Bytes(<<"n">>),
     (KeyA :> Bytes(<<"1">>)) @@ (MESSAGE :> Bytes(<<"xFF">>))}

Init ==
    /\ template \in SampleTemplates
    /\ stream = interpolate(template)
    /\ encoding \in Encodings
    /\ types \in SampleMaps
    /\ calls = [w \in Workers |-> NoCall]

Next ==
    \E w \in Workers :
        \/ \E event \in SampleEvents :
              \/ PartitionCall(w, event)
              \/ AsStringCall(w, event)
              \/ AsBytesCall(w, event)
              \/ AsBytesNlCall(w, event)
              \/ TransformCall(w, event)
        \/ TransformStep(w)
        \/ TransformReturn(w)

Spec == Init /\ [][Next]_vars

(* ------------------------------- claims ------------------------------- *)

Done(w, op) == calls[w].pc = "done" /\ calls[w].op = op

\* the placeholder grammar: text[i..j] is "{{", one or more characters none
\* of which is a digit, "}}"
IsPlaceholder(text, i, j) ==
    /\ 1 <= i /\ i + 4 <= j /\ j <= Len(text)
    /\ text[i] = "{" /\ text[i + 1] = "{"
    /\ text[j - 1] = "}" /\ text[j] = "}"
    /\ \A k \in (i + 2)..(j - 2) : ~IsDigit(text[k])

HasPlaceholder(text) ==
    \E i \in 1..Len(text) : \E j \in 1..Len(text) : IsPlaceholder(text, i, j)

\* where "{{" and "}}" begin in a text
Opens(text) == {i \in 1..(Len(text) - 1) : text[i] = "{" /\ text[i + 1] = "{"}
Closes(text) == {j \in 1..(Len(text) - 1) : text[j] = "}" /\ text[j + 1] = "}"}

\* the first "{{...}}" of a text read as a reader does: from the first "{{"
\* to the nearest "}}" that leaves a name between them
FirstOpen(text) == Min(Opens(text))
FirstCloses(text) == {j \in Closes(text) : j >= FirstOpen(text) + 3}
HasFirst(text) == Opens(text) # {} /\ FirstCloses(text) # {}
FirstClose(text) == Min(FirstCloses(text))
FirstName(text) == SubSeq(text, FirstOpen(text) + 2, FirstClose(text) - 1)
Before(text) == SubSeq(text, 1, FirstOpen(text) - 1)
After(text) == SubSeq(text, FirstClose(text) + 2, Len(text))
NoDigit(text) == \A k \in 1..Len(text) : ~IsDigit(text[k])
NoBrace(text) == \A k \in 1..Len(text) : text[k] \notin {"{", "}"}

\* a second "{{...}}" follows the first one
HasSecond(text) == HasFirst(text) /\ HasFirst(After(text))

EncodeOps == {"event_as_string", "event_as_bytes", "event_as_bytes_with_nl"}

\* the bytes a finished encoding call put out, the newline of
\* event_as_bytes_with_nl left off
OutBytes(c) ==
    CASE c.op = "event_as_string" -> into_bytes(c.result.val)
      [] c.op = "event_as_bytes" -> c.result.val
      [] c.op = "event_as_bytes_with_nl" -> SubSeq(c.result.val, 1, Len(c.result.val) - 1)

\* C1: for every encoding mode and every event, event_as_string and
\* event_as_bytes (and event_as_bytes_with_nl) choose the same output form:
\* both the JSON serialization of all fields, or both the raw message field.
C1_SameForm ==
    \A w \in Workers :
        (calls[w].pc = "done" /\ calls[w].op \in {"event_as_bytes", "event_as_bytes_with_nl"}) =>
            LET c == calls[w]
                string == event_as_string(c.event, encoding)
            IN  \/ /\ OutBytes(c) = ToJson(c.event)
                   /\ string = from_utf8(ToJson(c.event))
                \/ /\ OutBytes(c) = MessageBytes(c.event)
                   /\ string = Ok(MessageString(c.event))

\* C2: with encoding mode Text every entry point outputs the raw message
\* field (empty if absent) for every event, structured events included; the
\* other fields never appear in the output.
C2_TextIsMessage ==
    \A w \in Workers :
        (encoding = Some(Text) /\ calls[w].pc = "done" /\ calls[w].op \in EncodeOps) =>
            /\ calls[w].result.tag = "Ok"
            /\ IF calls[w].op = "event_as_string"
               THEN calls[w].result.val = MessageString(calls[w].event)
               ELSE OutBytes(calls[w]) = MessageBytes(calls[w].event)

\* C3: for a template A{{name}}B with name non-empty and free of digits,
\* interpolate returns a Field whose key is name, and partition on an event
\* holding name = V returns A + bytes(V) + B.  Stated for the first "{{...}}"
\* of the template, its name free of braces too.
C3_KeyAndSubstitution ==
    (HasFirst(template) /\ NoDigit(FirstName(template)) /\ NoBrace(FirstName(template))) =>
        /\ stream.tag = "Field"
        /\ stream.key = FirstName(template)
        /\ \A w \in Workers :
              (Done(w, "partition") /\ Has(calls[w].event, FirstName(template))) =>
                  calls[w].result =
                      Some(Before(template)
                           \o as_bytes(calls[w].event[FirstName(template)])
                           \o After(template))

\* C4 as claimed: with the key present, the field's bytes are substituted at
\* every non-overlapping match of the matcher in the template.
C4_EveryMatch ==
    \A w \in Workers :
        (Done(w, "partition") /\ stream.tag = "Field" /\ Has(calls[w].event, stream.key)) =>
            calls[w].result =
                Some(replace_all(stream.pattern, stream.source,
                                 as_bytes(calls[w].event[stream.key])))

\* C4 as amended: with the key present, the field's bytes are substituted at
\* the leftmost match of the template (the longest one that starts there) and
\* nowhere else: the text before and after it is returned as it was.
C4_LeftmostMatchOnly ==
    \A w \in Workers :
        (Done(w, "partition") /\ stream.tag = "Field" /\ Has(calls[w].event, stream.key)) =>
            LET t == stream.source
            IN  \E i \in 1..Len(t) : \E j \in 1..Len(t) :
                    /\ IsPlaceholder(t, i, j)
                    /\ \A i2 \in 1..(i - 1) : \A j2 \in 1..Len(t) : ~IsPlaceholder(t, i2, j2)
                    /\ \A j2 \in (j + 1)..Len(t) : ~IsPlaceholder(t, i, j2)
                    /\ calls[w].result =
                           Some(SubSeq(t, 1, i - 1)
                                \o as_bytes(calls[w].event[stream.key])
                                \o SubSeq(t, j + 1, Len(t)))

\* C4 witness: a key present, and a template in which a second match of the
\* matcher follows the first
C4_Witness ==
    \E w \in Workers :
        /\ Done(w, "partition") /\ stream.tag = "Field"
        /\ Has(calls[w].event, stream.key)
        /\ LET cap == captures(stream.pattern, stream.source)
           IN  HasPlaceholder(SubSeq(stream.source, cap.end + 1, Len(stream.source)))

\* C5: for a template with more than one "{{...}}", interpolate returns a
\* Field whose key is the name of the first one alone: the matched region
\* is that first "{{...}}" and nothing after it.
C5_FirstPlaceholderOnly ==
    HasSecond(template) =>
        /\ stream.tag = "Field"
        /\ stream.key = FirstName(template)
        /\ captures(PATTERN, template) =
               [matched |-> TRUE, start |-> FirstOpen(template),
                end |-> FirstClose(template) + 1]

\* C6: partition on a Field returns None exactly when the key is absent from
\* the event; then it logs one warning that carries the key, and with the
\* key present it returns Some and logs nothing.  This holds of every call of
\* every worker, whatever the other calls were.
C6_NoneIffKeyAbsent ==
    \A w \in Workers :
        (Done(w, "partition") /\ stream.tag = "Field") =>
            LET c == calls[w]
            IN  /\ c.result.tag \in {"None", "Some"}
                /\ c.result = None <=> ~Has(c.event, stream.key)
                /\ ~Has(c.event, stream.key) =>
                       /\ Len(c.diag) = 1
                       /\ c.diag[1].level = "warn"
                       /\ c.diag[1].key = stream.key
                /\ Has(c.event, stream.key) => c.diag = <<>>

\* C6 witness: one worker's event lacked the key and was dropped while
\* another worker's event had it and was resolved
C6_Witness ==
    \E w1 \in Workers : \E w2 \in Workers :
        /\ stream.tag = "Field"
        /\ Done(w1, "partition") /\ ~Has(calls[w1].event, stream.key)
        /\ calls[w1].result = None
        /\ Done(w2, "partition") /\ Has(calls[w2].event, stream.key)
        /\ calls[w2].result.tag = "Some"

\* what Coercer::transform owes for one field of the event
Coerced(event, k) ==
    IF k \in DOMAIN types /\ convert(types[k], event[k]).tag = "Ok"
    THEN convert(types[k], event[k]).val
    ELSE event[k]
FailedFields(event) ==
    {k \in DOMAIN types \cap DOMAIN event : convert(types[k], event[k]).tag = "Err"}

\* C7: Coercer::transform returns exactly one event whatever the order the
\* fields are visited in: a configured field that is present holds the
\* converted value if the conversion succeeds and its original value if it
\* fails (one diagnostic naming the field), a configured field that is absent
\* is not added, and every other field keeps its value.
C7_PerFieldOutcome ==
    \A w \in Workers :
        Done(w, "transform") =>
            LET c == calls[w]
            IN  /\ c.result.tag = "Some"
                /\ DOMAIN c.result.val = DOMAIN c.event
                /\ \A k \in DOMAIN c.event : c.result.val[k] = Coerced(c.event, k)
                /\ Len(c.diag) = Cardinality(FailedFields(c.event))
                /\ \A k \in FailedFields(c.event) :
                       \E i \in 1..Len(c.diag) : c.diag[i].field = k

\* C7 witness: one field was converted and another failed and kept its value
C7_Witness ==
    \E w \in Workers :
        /\ Done(w, "transform")
        /\ \E k \in DOMAIN calls[w].event :
              k \in DOMAIN types /\ calls[w].result.val[k].kind # "Bytes"
        /\ FailedFields(calls[w].event) # {}

\* C8 as claimed: with mode Json every event, and with mode unset every
\* structured event, is output as the serialization of all fields; with mode
\* unset an unstructured event is output as its raw message field bytes,
\* empty and successful when the field is absent; at event_as_string and
\* event_as_bytes alike.
C8_RawMessageBytes ==
    \A w \in Workers :
        (calls[w].pc = "done" /\ calls[w].op \in {"event_as_string", "event_as_bytes"}
            /\ encoding # Some(Text)) =>
            /\ calls[w].result.tag = "Ok"
            /\ OutBytes(calls[w]) =
                   IF encoding = Some(Json) \/ is_structured(calls[w].event)
                   THEN ToJson(calls[w].event)
                   ELSE MessageBytes(calls[w].event)

ValidUtf8(bytes) == from_utf8(bytes).tag = "Ok"

\* C8 as amended: the same, except that event_as_string puts out the raw
\* message as text, each byte that is not valid UTF-8 replaced by U+FFFD,
\* which is the raw bytes when the message is valid UTF-8.
C8_RawMessageLossyText ==
    \A w \in Workers :
        (calls[w].pc = "done" /\ calls[w].op \in {"event_as_string", "event_as_bytes"}
            /\ encoding # Some(Text)) =>
            LET c == calls[w]
                raw == ~(encoding = Some(Json) \/ is_structured(c.event))
            IN  /\ c.result.tag = "Ok"
                /\ ~raw => OutBytes(c) = ToJson(c.event)
                /\ (raw /\ c.op = "event_as_bytes") => c.result.val = MessageBytes(c.event)
                /\ (raw /\ c.op = "event_as_string") =>
                       /\ Len(c.result.val) = Len(MessageBytes(c.event))
                       /\ \A i \in 1..Len(c.result.val) :
                              c.result.val[i] =
                                  IF ValidUtf8(<<MessageBytes(c.event)[i]>>)
                                  THEN MessageBytes(c.event)[i]
                                  ELSE "U+FFFD"
                       /\ ValidUtf8(MessageBytes(c.event)) =>
                              OutBytes(c) = MessageBytes(c.event)

\* C8 witness: mode unset, an unstructured event whose message is not valid
\* UTF-8, put out by event_as_string
C8_Witness ==
    \E w \in Workers :
        /\ Done(w, "event_as_string") /\ encoding = None
        /\ ~is_structured(calls[w].event) /\ Has(calls[w].event, MESSAGE)
        /\ ~ValidUtf8(MessageBytes(calls[w].event))

Owed(c) ==
    CASE c.op = "partition" -> partition(c.event, stream).result
      [] c.op = "event_as_string" -> event_as_string(c.event, encoding)
      [] c.op = "event_as_bytes" -> event_as_bytes(c.event, encoding)
      [] c.op = "event_as_bytes_with_nl" -> event_as_bytes_with_nl(c.event, encoding)
      [] c.op = "transform" -> Some([k \in DOMAIN c.event |-> Coerced(c.event, k)])

\* C10: no call changes the shared configuration (the compiled Partition,
\* the encoding mode, the conversion map), under any interleaving of the
\* workers, and the result of each call depends on its own event and the
\* configuration alone.
C10_ConfigImmutable ==
    /\ [][config' = config]_vars
    /\ [](/\ stream = interpolate(template)
          /\ \A w \in Workers : calls[w].pc = "done" => calls[w].result = Owed(calls[w]))

\* C10 witness: a worker is inside Coercer::transform, one conversion already
\* failed, while another worker has resolved a partition
C10_Witness ==
    \E w1 \in Workers : \E w2 \in Workers :
        /\ calls[w1].pc = "running" /\ calls[w1].diag # <<>> /\ calls[w1].todo # {}
        /\ Done(w2, "partition")

====
